---- MODULE Spec2Model ----
(***************************************************************************)
(* Task management core of podcast_crawler (src/src/crawler_refactor):     *)
(* Task stage log, Distributor, dispatch bus, Worker loop, TimerQueue,     *)
(* ShutdownCoordinator, TaskManagementSystem facade and BatchInserter.     *)
(*                                                                         *)
(* Three specifications share the variables:                               *)
(*   Spec          the TaskManagementSystem with its embedded inserter,    *)
(*                 tasks with max_retries 0 or MaxRetries                  *)
(*   SpecFacade    the same system with the tasks the Distributor builds   *)
(*                 (max_retries 0) and up to MaxSubmits add_task calls     *)
(*   SpecInserter  a stand-alone BatchInserter driven by insert()/finish() *)
(*                 as in the tests of inserter_refactored.rs               *)
(***************************************************************************)
EXTENDS Integers, Sequences, FiniteSets, TLC

\* ---------------------------------------------------------------- bounds
NumWorkers == 2
MaxStarts == 2
MaxKeys == 2
MaxTasks == 1
MaxRetries == 2
MaxTime == 2
MaxHistorySize == 1
TmsBatchSize == 1
BatchSize == 2
MaxConcurrentInserts == 1
MaxItems == 3
MaxSubmits == 3
\* capacity of the dispatch bus; the program builds broadcast::channel(5000)
BusCapacity == 2
MaxStages == 3
MaxScheduled == 3

\* ------------------------------------------------------ program constants
\* Duration::from_secs(1) added to Instant::now() when a retry is scheduled
BackoffSecs == 1

Workers == 0 .. (NumWorkers - 1)

\* the id of the worker that runs as spawned loop w: ThreadManager::start spawns a
\* clone of each of the NumWorkers workers, every time it is called
WorkerId(w) == w % NumWorkers
Ids == 1 .. (IF MaxSubmits > MaxTasks THEN MaxSubmits ELSE MaxTasks)
Urls == {"a"}
NoTask == [id |-> 0]

VARIABLES
    started,          \* ThreadManager::start has run
    cancelled,        \* TaskManagementSystem.cancellation_token
    task_id_counter,  \* Distributor.task_id_counter
    current_index,    \* Distributor.current_index
    registry,         \* TaskWorkerMaps.task_metadata : id -> Task
    history,          \* TaskWorkerMaps.worker_metadata : worker -> VecDeque<url>
    bus,              \* broadcast channel, one cursor (queue) per receiver
    wstate,           \* Worker.state of the spawned worker
    wpc,              \* position of each worker coroutine
    wtask,            \* the task a worker is executing (local copy)
    in_progress,      \* in_progress_tasks of Worker::start
    timers,           \* TimerQueue.timers (BinaryHeap<Task>)
    tqpc,             \* position of the TimerQueue coroutine
    timer_drained,    \* ShutdownCoordinator.timer_queue_notify
    worker_count,     \* ShutdownCoordinator.worker_count (remaining workers)
    shutdown_complete,\* ShutdownCoordinator.shutdown_complete was notified
    now,              \* Instant::now(), in seconds
    sdpc,             \* position of shutdown_with_timeout
    sd_started,       \* whether start() had run when shutdown was called
    batch_size,       \* batch_size argument of BatchInserter::new
    tx_open,          \* BatchInserter.tx (and its clones) not all dropped
    chan,             \* BatchInserter inbound mpsc channel
    monpc,            \* position of the monitor coroutine
    batch,            \* the Vec collect_batch is filling
    flushers,         \* spawned flusher tasks: <<batch, position>>
    permits,          \* BatchInserter.semaphore available permits
    active_workers,   \* BatchInserter.active_workers
    processed_count,  \* BatchInserter.processed_count
    shutdown_sig,     \* a () waits in the monitor_shutdown channel
    finpc,            \* position of finish()
    fin_result,       \* what finish() returned
    has_clone,        \* a clone of the BatchInserter outlives finish()
    accepted,         \* history: the items insert() returned Ok for (all distinct)
    flush_log,        \* history: the insert_fn invocations, each with its outcome
    audit,            \* history: per task, counts of fetch/parse/schedule/publish/submit
    remaining_tasks,  \* TimerQueue::start_worker: the Vec the drain pops the heap into
    wait_timed_out,   \* history: wait_for_timer_queue returned false for the worker
    unit_task,        \* a Task driven directly through its methods (SpecTask)
    calls,            \* per coroutine: the TaskWorkerMaps call it is in, and where
    held              \* per coroutine: the RwLock guards it holds

tmsVars == <<started, cancelled, task_id_counter, current_index, registry, history,
             bus, wstate, wpc, wtask, in_progress, timers, tqpc, timer_drained,
             worker_count, shutdown_complete, now, sdpc, sd_started, audit>>
insVars == <<tx_open, chan, monpc, batch, flushers, permits, active_workers,
             processed_count, shutdown_sig, accepted, flush_log>>
finVars == <<finpc, fin_result, has_clone, batch_size>>
sdVars == <<remaining_tasks, wait_timed_out>>
lockVars == <<calls, held>>
vars == <<tmsVars, insVars, finVars, sdVars, unit_task, lockVars>>

\* ------------------------------------------------------------ sequences
Last(s) == s[Len(s)]

SeqToSet(s) == {s[i] : i \in 1 .. Len(s)}

RemoveAt(s, i) == [j \in 1 .. (Len(s) - 1) |-> IF j < i THEN s[j] ELSE s[j + 1]]

\* ----------------------------------------------------------------- Task
NewStage(name) == [name |-> name, status |-> "InProgress", result |-> "none", err |-> ""]

\* variant: the id argument is ignored
TaskNewSameId(id, payload, max_retries) ==
    [id |-> 1, target_thread_id |-> 0, payload |-> payload, retries |-> 0,
     max_retries |-> max_retries, backoff_timer |-> -1, stages |-> <<>>,
     shutdown |-> FALSE]

TaskNew(id, payload, max_retries) ==
    [id |-> id, target_thread_id |-> 0, payload |-> payload, retries |-> 0,
     max_retries |-> max_retries, backoff_timer |-> -1, stages |-> <<>>,
     shutdown |-> FALSE]

add_stage(t, name) == [t EXCEPT !.stages = Append(@, NewStage(name))]

complete_stage(t, result_data) ==
    IF t.stages = <<>> THEN t
    ELSE [t EXCEPT !.stages[Len(t.stages)] =
                       [@ EXCEPT !.status = "Completed", !.result = result_data]]

fail_stage(t, error_message) ==
    IF t.stages = <<>> THEN t
    ELSE [t EXCEPT !.stages[Len(t.stages)] =
                       [@ EXCEPT !.status = "Failed", !.err = error_message]]

get_task_status(t) == IF t.stages = <<>> THEN "Pending" ELSE Last(t.stages).status

get_stage_result_data_by_name(t, name) ==
    IF \E i \in 1 .. Len(t.stages) : t.stages[i].name = name
    THEN LET first == CHOOSE i \in 1 .. Len(t.stages) :
                          /\ t.stages[i].name = name
                          /\ \A j \in 1 .. (i - 1) : t.stages[j].name # name
         IN t.stages[first].result
    ELSE "none"

HasStage(t, name) == \E i \in 1 .. Len(t.stages) : t.stages[i].name = name

\* ------------------------------------------------------- fetcher, parser
\* variant: a fetching stage is appended on every attempt
fetch_with_task_appending(t, ok) ==
    IF ok THEN complete_stage(add_stage(t, "fetching"), "{}") ELSE add_stage(t, "fetching")

\* variant: a successful fetch leaves its stage as it is
fetch_with_task_not_completing(t, ok) ==
    IF HasStage(t, "fetching") THEN t ELSE add_stage(t, "fetching")

\* ok is the outcome of Fetcher::fetch for the payload
fetch_with_task(t, ok) ==
    LET t1 == IF HasStage(t, "fetching") THEN t ELSE add_stage(t, "fetching")
    IN IF ok THEN complete_stage(t1, "{}") ELSE t1

\* ok is the outcome of Parser::parse for the fetched content
parse_with_task(t, ok) ==
    LET t1 == add_stage(t, "parsing")
    IN IF ok THEN complete_stage(t1, "parsed") ELSE fail_stage(t1, "parse error")

\* ---------------------------------------------------------- audit trail
NoAudit == [fetch_calls |-> 0, fetch_fails |-> 0, parse_fails |-> 0,
            scheduled |-> 0, published |-> 0, submitted |-> 0, returned |-> "none",
            drained |-> 0]

Bump(a, id, field) == [a EXCEPT ![id][field] = @ + 1]

\* what add_task returned for the task with this id
Returned(a, id, result) == [a EXCEPT ![id].returned = result]

RECURSIVE BumpAll(_, _, _)
BumpAll(a, ts, field) ==
    IF ts = <<>> THEN a ELSE BumpAll(Bump(a, ts[1].id, field), Tail(ts), field)

\* --------------------------------------------------------- dispatch bus
\* receivers alive: created by ThreadManager::start, dropped when the loop returns
Receivers == {w \in DOMAIN wpc : wpc[w] \notin {"notstarted", "done"}}

\* variant: a send is taken to succeed without any receiver
SendOkAlways(rcv) == TRUE

\* broadcast::Sender::send fails exactly when no receiver is alive
SendOk(rcv) == rcv # {}

\* broadcast::Sender::send: every live receiver gets the message; the channel keeps
\* the last BusCapacity messages, so a receiver that is further behind loses the
\* oldest one (its next recv returns Lagged, which Worker::start skips)
BusSend(b, rcv, t) ==
    [w \in DOMAIN b |->
        IF w \in rcv
        THEN IF Len(b[w]) < BusCapacity THEN Append(b[w], t) ELSE Append(Tail(b[w]), t)
        ELSE b[w]]

RECURSIVE BusSendAll(_, _, _)
BusSendAll(b, rcv, ts) ==
    IF ts = <<>> THEN b ELSE BusSendAll(BusSend(b, rcv, ts[1]), rcv, Tail(ts))

\* --------------------------------------------------------- TaskWorkerMaps
\* variant: the map is replaced by the new entry
insert_task_replacing(reg, key, value) == [i \in {key} |-> value]

insert_task(reg, key, value) ==
    [i \in (DOMAIN reg) \cup {key} |-> IF i = key THEN value ELSE reg[i]]

update_task(reg, key, value) ==
    IF key \in DOMAIN reg THEN [reg EXCEPT ![key] = value] ELSE reg

RECURSIVE PopWhileOver(_, _)
PopWhileOver(q, capacity) ==
    IF Len(q) > capacity THEN PopWhileOver(Tail(q), capacity) ELSE q

push_to_worker_with_capacity(h, key, value, capacity) ==
    IF key \in DOMAIN h
    THEN [h EXCEPT ![key] = Append(PopWhileOver(@, capacity), value)]
    ELSE h

\* ------------------------------------------------------------ TimerQueue
schedule_retry(heap, t) ==
    heap \cup {IF t.backoff_timer = -1 THEN [t EXCEPT !.backoff_timer = now + BackoffSecs]
               ELSE t}

\* variant: peek returns any entry of the heap
HeapTopsAny(heap) == heap

\* BinaryHeap::peek with the reversed Ord: an entry with the smallest backoff_timer
HeapTops(heap) == {t \in heap : \A u \in heap : t.backoff_timer <= u.backoff_timer}

\* the orders in which repeated pop() can return the whole heap
DrainOrders(heap) ==
    {s \in [1 .. Cardinality(heap) -> heap] :
        /\ \A i, j \in 1 .. Cardinality(heap) : i # j => s[i] # s[j]
        /\ \A i, j \in 1 .. Cardinality(heap) :
              i < j => s[i].backoff_timer <= s[j].backoff_timer}

MarkShutdown(s) == [i \in 1 .. Len(s) |-> [s[i] EXCEPT !.shutdown = TRUE]]

\* ------------------------------------------------------------------ Init
\* the coroutines that call into TaskWorkerMaps
Coroutines == {"distributor", "worker", "reader"}

NoCall == [op |-> "none", key |-> 0, pc |-> "idle", todo |-> {}]

\* no call under way, no guard held
InitLocks ==
    /\ calls = [c \in Coroutines |-> NoCall]
    /\ held = [c \in Coroutines |-> {}]

InitTms ==
    /\ started = FALSE
    /\ cancelled = FALSE
    /\ task_id_counter = 0
    /\ current_index = 0
    /\ registry = <<>>
    /\ history = [w \in Workers |-> <<>>]
    /\ bus = [w \in Workers |-> <<>>]
    /\ wstate = [w \in Workers |-> "Idle"]
    /\ wpc = [w \in Workers |-> "notstarted"]
    /\ wtask = [w \in Workers |-> NoTask]
    /\ in_progress = [w \in Workers |-> <<>>]
    /\ timers = {}
    /\ tqpc = "notstarted"
    /\ timer_drained = FALSE
    /\ worker_count = NumWorkers
    /\ shutdown_complete = FALSE
    /\ now = 0
    /\ sdpc = "idle"
    /\ sd_started = FALSE
    /\ audit = [i \in Ids |-> NoAudit]
    /\ remaining_tasks = <<>>
    /\ wait_timed_out = [w \in Workers |-> FALSE]

\* finish() has not returned / returned Err
NoResult == -1
ErrResult == -2

\* BatchInserter::new: the channel is open and the monitor is already spawned
InitIns ==
    /\ tx_open = TRUE
    /\ chan = <<>>
    /\ monpc = "check"
    /\ batch = <<>>
    /\ flushers = <<>>
    /\ permits = MaxConcurrentInserts
    /\ active_workers = 0
    /\ processed_count = 0
    /\ shutdown_sig = FALSE
    /\ accepted = {}
    /\ flush_log = {}
    /\ finpc = "idle"
    /\ fin_result = NoResult

\* TaskWorkerMaps::new builds the inserter; nobody else owns a clone of it
Init ==
    /\ InitTms /\ InitIns /\ has_clone = FALSE /\ batch_size = TmsBatchSize
    /\ unit_task = NoTask /\ InitLocks

\* ----------------------------------------------- TaskManagementSystem API
\* start/add_task take &mut self, shutdown_with_timeout takes &self: no call
\* of the facade overlaps a shutdown that is still waiting.
FacadeFree == sdpc # "waiting"

\* ThreadManager::start: spawn the TimerQueue loop, subscribe and spawn every worker
Start ==
    /\ FacadeFree
    /\ ~started
    /\ started' = TRUE
    /\ tqpc' = "running"
    /\ wpc' = [w \in Workers |-> "recv"]
    /\ wstate' = [w \in Workers |-> "Processing"]
    /\ UNCHANGED <<cancelled, task_id_counter, current_index, registry, history, bus,
                   wtask, in_progress, timers, timer_drained, worker_count,
                   shutdown_complete, now, sdpc, sd_started, audit>>
    /\ UNCHANGED <<insVars, finVars, sdVars, unit_task, lockVars>>

\* f, with the value v for the worker loops a further start() spawns
Spawned(f, v) ==
    [i \in 0 .. (Cardinality(DOMAIN f) + NumWorkers - 1) |->
        IF i \in DOMAIN f THEN f[i] ELSE v]

\* TaskManagementSystem::start called again: ThreadManager::start has no test of an
\* earlier call; it spawns another TimerQueue loop and, for every worker, subscribes
\* a new receiver and spawns a new clone of the worker. (Two TimerQueue loops on the
\* one heap are followed as one; a loop that had exited runs again.)
StartAgain ==
    /\ FacadeFree
    /\ started
    /\ Cardinality(DOMAIN wpc) < MaxStarts * NumWorkers
    /\ tqpc' = IF tqpc = "done" THEN "running" ELSE tqpc
    /\ wpc' = Spawned(wpc, "recv")
    /\ wstate' = Spawned(wstate, "Processing")
    /\ wtask' = Spawned(wtask, NoTask)
    /\ in_progress' = Spawned(in_progress, <<>>)
    /\ bus' = Spawned(bus, <<>>)
    /\ wait_timed_out' = Spawned(wait_timed_out, FALSE)
    /\ UNCHANGED <<started, cancelled, task_id_counter, current_index, registry, history,
                   timers, timer_drained, worker_count, shutdown_complete, now, sdpc,
                   sd_started, audit>>
    /\ UNCHANGED <<insVars, finVars, remaining_tasks, unit_task, lockVars>>

\* variant: every task goes to the first worker
select_worker_first(index) == 0

\* Distributor::select_worker: round robin over the workers
select_worker(index) == index

\* Distributor::create_task. max_retries is the third argument of Task::new
\* (the call site in distributor.rs passes the literal 0).
create_task(url, max_retries) ==
    LET id == task_id_counter + 1
        t0 == add_stage(TaskNew(id, url, max_retries), "distribution")
        best == select_worker(current_index)
        t1 == IF get_task_status(t0) = "InProgress" THEN complete_stage(t0, "{}") ELSE t0
        t2 == [t1 EXCEPT !.target_thread_id = best]
        reg1 == insert_task(registry, id, t2)
    IN /\ task_id_counter' = id
       /\ current_index' = (current_index + 1) % NumWorkers
       /\ IF SendOk(Receivers)
          THEN /\ bus' = BusSend(bus, Receivers, t2)
               /\ registry' = reg1
               /\ audit' = Returned(Bump(audit, id, "published"), id, "Ok")
          ELSE /\ bus' = bus
               /\ registry' = insert_task(reg1, id, fail_stage(t2, "channel closed"))
               /\ audit' = Returned(audit, id, "Err")

\* add_task; limit bounds the number of calls
AddTask(url, max_retries, limit) ==
    /\ FacadeFree
    /\ task_id_counter < limit
    /\ create_task(url, max_retries)
    /\ UNCHANGED <<started, cancelled, history, wstate, wpc, wtask, in_progress, timers,
                   tqpc, timer_drained, worker_count, shutdown_complete, now, sdpc,
                   sd_started>>
    /\ UNCHANGED <<insVars, finVars, sdVars, unit_task, lockVars>>

\* variant: only the TimerQueue loop is spawned on the tracker
TrackerEmptyTimerOnly == tqpc \in {"notstarted", "done"}

\* TaskTracker::wait completes when no spawned loop is alive
TrackerEmpty ==
    /\ tqpc \in {"notstarted", "done"}
    /\ \A w \in DOMAIN wpc : wpc[w] \in {"notstarted", "done"}

\* shutdown_with_timeout: cancel the token, close the tracker, start waiting
ShutdownCall ==
    /\ sdpc = "idle"
    /\ cancelled' = TRUE
    /\ sdpc' = "waiting"
    /\ sd_started' = started
    /\ UNCHANGED <<started, task_id_counter, current_index, registry, history, bus,
                   wstate, wpc, wtask, in_progress, timers, tqpc, timer_drained,
                   worker_count, shutdown_complete, now, audit>>
    /\ UNCHANGED <<insVars, finVars, sdVars, unit_task, lockVars>>

\* shutdown_with_timeout: the wait on the tracker completed within the budget
ShutdownReturn ==
    /\ sdpc = "waiting"
    /\ TrackerEmpty
    /\ sdpc' = "returned"
    /\ UNCHANGED <<started, cancelled, task_id_counter, current_index, registry,
                   history, bus, wstate, wpc, wtask, in_progress, timers, tqpc,
                   timer_drained, worker_count, shutdown_complete, now, sd_started,
                   audit>>
    /\ UNCHANGED <<insVars, finVars, sdVars, unit_task, lockVars>>

\* shutdown_with_timeout: the budget elapsed first
ShutdownTimeout ==
    /\ sdpc = "waiting"
    /\ ~TrackerEmpty
    /\ sdpc' = "timedout"
    /\ UNCHANGED <<started, cancelled, task_id_counter, current_index, registry,
                   history, bus, wstate, wpc, wtask, in_progress, timers, tqpc,
                   timer_drained, worker_count, shutdown_complete, now, sd_started,
                   audit>>
    /\ UNCHANGED <<insVars, finVars, sdVars, unit_task, lockVars>>

\* TaskTracker::close is called by shutdown_with_timeout only
TrackerClosed == sdpc # "idle"

\* wait_for_all_tasks_completed_with_timeout(timeout), a call whose timeout
\* elapses before TaskTracker::wait completes: the cancellation token is cancelled
\* and the registry is read and returned. (A call whose wait completes only reads
\* the registry.) The call takes any Duration, so it is one step.
AwaitTimeout ==
    /\ ~(TrackerClosed /\ TrackerEmpty)
    /\ cancelled' = TRUE
    /\ UNCHANGED <<started, task_id_counter, current_index, registry,
                   history, bus, wstate, wpc, wtask, in_progress, timers, tqpc,
                   timer_drained, worker_count, shutdown_complete, now, sdpc,
                   sd_started, audit>>
    /\ UNCHANGED <<insVars, finVars, sdVars, unit_task, lockVars>>

\* the clock behind Instant::now(); it is read only to set and to test a
\* backoff_timer, so it is advanced only while a heap entry is waiting for it
Tick ==
    /\ now < MaxTime
    /\ \E t \in timers : now < t.backoff_timer
    /\ now' = now + 1
    /\ UNCHANGED <<started, cancelled, task_id_counter, current_index, registry,
                   history, bus, wstate, wpc, wtask, in_progress, timers, tqpc,
                   timer_drained, worker_count, shutdown_complete, sdpc, sd_started,
                   audit>>
    /\ UNCHANGED <<insVars, finVars, sdVars, unit_task, lockVars>>

\* ------------------------------------------------------------ TimerQueue
\* variant: the due entry is sent but stays in the heap
TimerPopKeeping ==
    /\ tqpc = "running"
    /\ \E t \in HeapTops(timers) :
          /\ t.backoff_timer # -1
          /\ t.backoff_timer <= now
          /\ timers' = timers
          /\ IF SendOk(Receivers)
             THEN /\ bus' = BusSend(bus, Receivers, t)
                  /\ audit' = Bump(audit, t.id, "published")
             ELSE UNCHANGED <<bus, audit>>
    /\ UNCHANGED <<started, cancelled, task_id_counter, current_index, registry,
                   history, wstate, wpc, wtask, in_progress, tqpc, timer_drained,
                   worker_count, shutdown_complete, now, sdpc, sd_started>>
    /\ UNCHANGED <<insVars, finVars, sdVars, unit_task, lockVars>>

\* start_worker, second select! branch: pop the top entry when it is due and send it
TimerPop ==
    /\ tqpc = "running"
    /\ \E t \in HeapTops(timers) :
          /\ t.backoff_timer # -1
          /\ t.backoff_timer <= now
          /\ timers' = timers \ {t}
          /\ IF SendOk(Receivers)
             THEN /\ bus' = BusSend(bus, Receivers, t)
                  /\ audit' = Bump(audit, t.id, "published")
             ELSE UNCHANGED <<bus, audit>>
    /\ UNCHANGED <<started, cancelled, task_id_counter, current_index, registry,
                   history, wstate, wpc, wtask, in_progress, tqpc, timer_drained,
                   worker_count, shutdown_complete, now, sdpc, sd_started>>
    /\ UNCHANGED <<insVars, finVars, sdVars, unit_task, lockVars>>

\* start_worker, first select! branch: under the lock of the heap, pop every entry
\* and stamp it with shutdown = true
TimerDrain ==
    /\ tqpc = "running"
    /\ cancelled
    /\ \E order \in DrainOrders(timers) : remaining_tasks' = MarkShutdown(order)
    /\ timers' = {}
    /\ tqpc' = "draining"
    /\ UNCHANGED <<started, cancelled, task_id_counter, current_index, registry,
                   history, bus, wstate, wpc, wtask, in_progress, timer_drained,
                   worker_count, shutdown_complete, now, sdpc, sd_started, audit>>
    /\ UNCHANGED <<insVars, finVars, wait_timed_out, unit_task, lockVars>>

\* start_worker, first select! branch after the lock is released: send every popped
\* task, fire timer_queue_notify, leave the loop
TimerRepublish ==
    /\ tqpc = "draining"
    /\ IF SendOk(Receivers)
       THEN /\ bus' = BusSendAll(bus, Receivers, remaining_tasks)
            /\ audit' = BumpAll(BumpAll(audit, remaining_tasks, "published"),
                                remaining_tasks, "drained")
       ELSE UNCHANGED <<bus, audit>>
    /\ remaining_tasks' = <<>>
    /\ timer_drained' = TRUE
    /\ tqpc' = "done"
    /\ UNCHANGED <<started, cancelled, task_id_counter, current_index, registry,
                   history, wstate, wpc, wtask, in_progress, timers, worker_count,
                   shutdown_complete, now, sdpc, sd_started>>
    /\ UNCHANGED <<insVars, finVars, wait_timed_out, unit_task, lockVars>>

\* ---------------------------------------------------------------- Worker
Retain(ids, id) == SelectSeq(ids, LAMBDA x : x # id)

\* BatchInserter: capacity of the inbound channel, mpsc::channel(batch_size * 2)
ChanCapacity == batch_size * 2

\* the mpsc Receiver lives in the BatchInserter and in every clone of it
RxOpen == finpc \notin {"ok", "err"} \/ has_clone

\* variant: handle_task does not look at target_thread_id
WorkerRecvAnyTarget(w) ==
    /\ wpc[w] = "recv"
    /\ bus[w] # <<>>
    /\ bus' = [bus EXCEPT ![w] = Tail(@)]
    /\ LET task == Head(bus[w])
       IN IF wstate[w] # "Processing"
          THEN UNCHANGED <<wpc, wtask, in_progress>>
          ELSE /\ in_progress' = [in_progress EXCEPT ![w] = Append(@, task.id)]
               /\ wtask' = [wtask EXCEPT ![w] = task]
               /\ wpc' = [wpc EXCEPT ![w] = "fetch"]
    /\ UNCHANGED <<started, cancelled, task_id_counter, current_index, registry,
                   history, wstate, timers, tqpc, timer_drained, worker_count,
                   shutdown_complete, now, sdpc, sd_started, audit>>
    /\ UNCHANGED <<insVars, finVars, sdVars, unit_task, lockVars>>

\* Worker::start, recv branch, and the guard at the head of handle_task
WorkerRecv(w) ==
    /\ wpc[w] = "recv"
    /\ bus[w] # <<>>
    /\ bus' = [bus EXCEPT ![w] = Tail(@)]
    /\ LET task == Head(bus[w])
       IN IF wstate[w] # "Processing" \/ task.target_thread_id # WorkerId(w)
          THEN UNCHANGED <<wpc, wtask, in_progress>>
          ELSE /\ in_progress' = [in_progress EXCEPT ![w] = Append(@, task.id)]
               /\ wtask' = [wtask EXCEPT ![w] = task]
               /\ wpc' = [wpc EXCEPT ![w] = "fetch"]
    /\ UNCHANGED <<started, cancelled, task_id_counter, current_index, registry,
                   history, wstate, timers, tqpc, timer_drained, worker_count,
                   shutdown_complete, now, sdpc, sd_started, audit>>
    /\ UNCHANGED <<insVars, finVars, sdVars, unit_task, lockVars>>

\* variant: gives up one attempt early
RetryAllowedEarly(t) == t.retries + 1 < t.max_retries

\* variant: off by one, retries once more than max_retries
RetryAllowedInclusive(t) == t.retries <= t.max_retries

\* Worker::handle_fetch_error, the test that decides between retry and failure
RetryAllowed(t) == t.retries < t.max_retries

\* variant: the stage is failed on every error, also when a retry is scheduled
handle_fetch_error_failing(t) ==
    IF RetryAllowed(t)
    THEN LET t1 == [fail_stage(t, "fetch error") EXCEPT
                       !.retries = @ + 1, !.backoff_timer = now + BackoffSecs]
         IN /\ timers' = schedule_retry(timers, t1)
            /\ registry' = registry
            /\ audit' = Bump(Bump(Bump(audit, t.id, "fetch_calls"), t.id, "fetch_fails"),
                             t.id, "scheduled")
    ELSE LET t1 == fail_stage(t, "fetch error")
         IN /\ timers' = timers
            /\ registry' = update_task(registry, t1.id, t1)
            /\ audit' = Bump(Bump(audit, t.id, "fetch_calls"), t.id, "fetch_fails")

\* Worker::handle_fetch_error: what it does to the task, the heap and the registry
handle_fetch_error(t) ==
    IF RetryAllowed(t)
    THEN LET t1 == [t EXCEPT !.retries = @ + 1, !.backoff_timer = now + BackoffSecs]
         IN /\ timers' = schedule_retry(timers, t1)
            /\ registry' = registry
            /\ audit' = Bump(Bump(Bump(audit, t.id, "fetch_calls"), t.id, "fetch_fails"),
                             t.id, "scheduled")
    ELSE LET t1 == fail_stage(t, "fetch error")
         IN /\ timers' = timers
            /\ registry' = update_task(registry, t1.id, t1)
            /\ audit' = Bump(Bump(audit, t.id, "fetch_calls"), t.id, "fetch_fails")

\* process_task: fetch_task, and on error handle_fetch_error and the tail of handle_task
WorkerFetch(w, ok) ==
    /\ wpc[w] = "fetch"
    /\ LET t1 == fetch_with_task(wtask[w], ok)
       IN IF ok
          THEN /\ wtask' = [wtask EXCEPT ![w] = t1]
               /\ wpc' = [wpc EXCEPT ![w] = "parse"]
               /\ audit' = Bump(audit, t1.id, "fetch_calls")
               /\ UNCHANGED <<timers, registry, in_progress>>
          ELSE /\ handle_fetch_error(t1)
               /\ in_progress' = [in_progress EXCEPT ![w] = Retain(@, t1.id)]
               /\ wtask' = [wtask EXCEPT ![w] = NoTask]
               /\ wpc' = [wpc EXCEPT ![w] = "recv"]
    /\ UNCHANGED <<started, cancelled, task_id_counter, current_index, history, bus,
                   wstate, tqpc, timer_drained, worker_count, shutdown_complete, now,
                   sdpc, sd_started>>
    /\ UNCHANGED <<insVars, finVars, sdVars, unit_task, lockVars>>

\* variant: a parse error is handed to handle_fetch_error like a fetch error
WorkerParseRetrying(w, ok) ==
    /\ wpc[w] = "parse"
    /\ LET t1 == parse_with_task(wtask[w], ok)
       IN IF ok
          THEN /\ wtask' = [wtask EXCEPT ![w] = t1]
               /\ wpc' = [wpc EXCEPT ![w] = "insert"]
               /\ UNCHANGED <<in_progress, audit, timers, registry>>
          ELSE /\ in_progress' = [in_progress EXCEPT ![w] = Retain(@, t1.id)]
               /\ wtask' = [wtask EXCEPT ![w] = NoTask]
               /\ wpc' = [wpc EXCEPT ![w] = "recv"]
               /\ IF RetryAllowed(t1)
                  THEN /\ timers' = schedule_retry(timers, [t1 EXCEPT !.retries = @ + 1,
                                                 !.backoff_timer = now + BackoffSecs])
                       /\ audit' = Bump(Bump(audit, t1.id, "parse_fails"), t1.id, "scheduled")
                       /\ UNCHANGED registry
                  ELSE /\ registry' = update_task(registry, t1.id, t1)
                       /\ audit' = Bump(audit, t1.id, "parse_fails")
                       /\ UNCHANGED timers
    /\ UNCHANGED <<started, cancelled, task_id_counter, current_index,
                   history, bus, wstate, tqpc, timer_drained, worker_count,
                   shutdown_complete, now, sdpc, sd_started>>
    /\ UNCHANGED <<insVars, finVars, sdVars, unit_task, lockVars>>

\* process_task: parse_task; an error leaves through `?` and the tail of handle_task
WorkerParse(w, ok) ==
    /\ wpc[w] = "parse"
    /\ LET t1 == parse_with_task(wtask[w], ok)
       IN IF ok
          THEN /\ wtask' = [wtask EXCEPT ![w] = t1]
               /\ wpc' = [wpc EXCEPT ![w] = "insert"]
               /\ UNCHANGED <<in_progress, audit>>
          ELSE /\ in_progress' = [in_progress EXCEPT ![w] = Retain(@, t1.id)]
               /\ wtask' = [wtask EXCEPT ![w] = NoTask]
               /\ wpc' = [wpc EXCEPT ![w] = "recv"]
               /\ audit' = Bump(audit, t1.id, "parse_fails")
    /\ UNCHANGED <<started, cancelled, task_id_counter, current_index, registry,
                   history, bus, wstate, timers, tqpc, timer_drained, worker_count,
                   shutdown_complete, now, sdpc, sd_started>>
    /\ UNCHANGED <<insVars, finVars, sdVars, unit_task, lockVars>>

\* variant: the worker completes the inserting stage itself before it sends the task
WorkerInsertCompleting(w) ==
    /\ wpc[w] = "insert"
    /\ LET t1 == complete_stage(add_stage(wtask[w], "inserting"), "success")
       IN IF RxOpen
          THEN /\ Len(chan) < ChanCapacity
               /\ chan' = Append(chan, t1)
               /\ accepted' = accepted \cup {t1}
               /\ audit' = Bump(audit, t1.id, "submitted")
               /\ wtask' = [wtask EXCEPT ![w] = t1]
               /\ wpc' = [wpc EXCEPT ![w] = "update"]
               /\ UNCHANGED in_progress
          ELSE /\ in_progress' = [in_progress EXCEPT ![w] = Retain(@, t1.id)]
               /\ wtask' = [wtask EXCEPT ![w] = NoTask]
               /\ wpc' = [wpc EXCEPT ![w] = "recv"]
               /\ UNCHANGED <<chan, accepted, audit>>
    /\ UNCHANGED <<started, cancelled, task_id_counter, current_index, registry,
                   history, bus, wstate, timers, tqpc, timer_drained, worker_count,
                   shutdown_complete, now, sdpc, sd_started>>
    /\ UNCHANGED <<tx_open, monpc, batch, flushers, permits, active_workers,
                   processed_count, shutdown_sig, flush_log>>
    /\ UNCHANGED <<finVars, sdVars, unit_task, lockVars>>

\* Worker::insert_task: append the inserting stage and send a clone to the inserter;
\* the send waits while the channel is full
WorkerInsert(w) ==
    /\ wpc[w] = "insert"
    /\ LET t1 == add_stage(wtask[w], "inserting")
       IN IF RxOpen
          THEN /\ Len(chan) < ChanCapacity
               /\ chan' = Append(chan, t1)
               /\ accepted' = accepted \cup {t1}
               /\ audit' = Bump(audit, t1.id, "submitted")
               /\ wtask' = [wtask EXCEPT ![w] = t1]
               /\ wpc' = [wpc EXCEPT ![w] = "update"]
               /\ UNCHANGED in_progress
          ELSE /\ in_progress' = [in_progress EXCEPT ![w] = Retain(@, t1.id)]
               /\ wtask' = [wtask EXCEPT ![w] = NoTask]
               /\ wpc' = [wpc EXCEPT ![w] = "recv"]
               /\ UNCHANGED <<chan, accepted, audit>>
    /\ UNCHANGED <<started, cancelled, task_id_counter, current_index, registry,
                   history, bus, wstate, timers, tqpc, timer_drained, worker_count,
                   shutdown_complete, now, sdpc, sd_started>>
    /\ UNCHANGED <<tx_open, monpc, batch, flushers, permits, active_workers,
                   processed_count, shutdown_sig, flush_log>>
    /\ UNCHANGED <<finVars, sdVars, unit_task, lockVars>>

\* process_task after insert_task: update_task, update_history; tail of handle_task
WorkerUpdate(w) ==
    /\ wpc[w] = "update"
    /\ registry' = update_task(registry, wtask[w].id, wtask[w])
    /\ history' = push_to_worker_with_capacity(history, WorkerId(w), wtask[w].payload,
                                             MaxHistorySize)
    /\ in_progress' = [in_progress EXCEPT ![w] = Retain(@, wtask[w].id)]
    /\ wtask' = [wtask EXCEPT ![w] = NoTask]
    /\ wpc' = [wpc EXCEPT ![w] = "recv"]
    /\ UNCHANGED <<started, cancelled, task_id_counter, current_index, bus, wstate,
                   timers, tqpc, timer_drained, worker_count, shutdown_complete, now,
                   sdpc, sd_started, audit>>
    /\ UNCHANGED <<insVars, finVars, sdVars, unit_task, lockVars>>

\* Worker::start, cancelled branch: enter handle_shutdown and wait for the TimerQueue
WorkerCancel(w) ==
    /\ wpc[w] = "recv"
    /\ cancelled
    /\ wstate' = [wstate EXCEPT ![w] = "Draining"]
    /\ wpc' = [wpc EXCEPT ![w] = "drain"]
    /\ UNCHANGED <<started, cancelled, task_id_counter, current_index, registry,
                   history, bus, wtask, in_progress, timers, tqpc, timer_drained,
                   worker_count, shutdown_complete, now, sdpc, sd_started, audit>>
    /\ UNCHANGED <<insVars, finVars, sdVars, unit_task, lockVars>>

\* handle_shutdown: fail the last stage of every task still listed in in_progress_tasks
RECURSIVE FailInProgress(_, _)
FailInProgress(reg, ids) ==
    IF ids = <<>> THEN reg
    ELSE IF Head(ids) \in DOMAIN reg
         THEN FailInProgress(update_task(reg, Head(ids),
                                         fail_stage(reg[Head(ids)], "Shutdown signal")),
                             Tail(ids))
         ELSE FailInProgress(reg, Tail(ids))

\* ShutdownCoordinator::worker_completed: fetch_sub(1) on an AtomicUsize
worker_completed(n) == n - 1

\* variant: the worker does not wait for the TimerQueue
WorkerShutdownNoWait(w, timed_out) ==
    /\ wpc[w] = "drain"
    /\ wait_timed_out' = [wait_timed_out EXCEPT ![w] = timed_out]
    /\ registry' = FailInProgress(registry, in_progress[w])
    /\ wstate' = [wstate EXCEPT ![w] = "Shutdown"]
    /\ worker_count' = worker_completed(worker_count)
    /\ shutdown_complete' = (shutdown_complete \/ worker_completed(worker_count) = 0)
    /\ wpc' = [wpc EXCEPT ![w] = "done"]
    /\ bus' = [bus EXCEPT ![w] = <<>>]
    /\ UNCHANGED <<started, cancelled, task_id_counter, current_index, history, wtask,
                   in_progress, timers, tqpc, timer_drained, now, sdpc, sd_started,
                   audit>>
    /\ UNCHANGED <<insVars, finVars, remaining_tasks, unit_task, lockVars>>

\* handle_shutdown after wait_for_timer_queue returned: notified, or its sleep ran out
\* (the sleep branch is taken only while timer_queue_notify has not fired)
WorkerShutdown(w, timed_out) ==
    /\ wpc[w] = "drain"
    /\ timer_drained \/ timed_out
    /\ timer_drained => ~timed_out
    /\ wait_timed_out' = [wait_timed_out EXCEPT ![w] = timed_out]
    /\ registry' = FailInProgress(registry, in_progress[w])
    /\ wstate' = [wstate EXCEPT ![w] = "Shutdown"]
    /\ worker_count' = worker_completed(worker_count)
    /\ shutdown_complete' = (shutdown_complete \/ worker_completed(worker_count) = 0)
    /\ wpc' = [wpc EXCEPT ![w] = "done"]
    /\ bus' = [bus EXCEPT ![w] = <<>>]
    /\ UNCHANGED <<started, cancelled, task_id_counter, current_index, history, wtask,
                   in_progress, timers, tqpc, timer_drained, now, sdpc, sd_started,
                   audit>>
    /\ UNCHANGED <<insVars, finVars, remaining_tasks, unit_task, lockVars>>

\* --------------------------------------------------------- BatchInserter
\* spawn_monitor: a batch is cut: count the flusher, spawn it
Cut(b) ==
    /\ flushers' = Append(flushers, [items |-> b, st |-> "acquire"])
    /\ active_workers' = active_workers + 1

\* spawn_monitor, head of the loop: try_recv on the shutdown channel
MonitorCheck ==
    /\ monpc = "check"
    /\ IF shutdown_sig
       THEN /\ shutdown_sig' = FALSE
            /\ monpc' = "wait_workers"
       ELSE /\ monpc' = "collect"
            /\ UNCHANGED shutdown_sig
    /\ batch' = <<>>
    /\ UNCHANGED <<tx_open, chan, flushers, permits, active_workers, processed_count,
                   accepted, flush_log>>
    /\ UNCHANGED <<tmsVars, finVars, sdVars, unit_task, lockVars>>

\* variant: the monitor leaves on the signal without waiting for the flushers
MonitorExitNoWait ==
    /\ monpc = "wait_workers"
    /\ monpc' = "done"
    /\ UNCHANGED <<tx_open, chan, batch, flushers, permits, active_workers,
                   processed_count, shutdown_sig, accepted, flush_log>>
    /\ UNCHANGED <<tmsVars, finVars, sdVars, unit_task, lockVars>>

\* spawn_monitor after the shutdown signal: leave once no flusher is active
MonitorExit ==
    /\ monpc = "wait_workers"
    /\ active_workers = 0
    /\ monpc' = "done"
    /\ UNCHANGED <<tx_open, chan, batch, flushers, permits, active_workers,
                   processed_count, shutdown_sig, accepted, flush_log>>
    /\ UNCHANGED <<tmsVars, finVars, sdVars, unit_task, lockVars>>

\* collect_batch: rx.recv() yields an item; a full batch is returned and cut.
\* (A recv that times out after 5 ms re-enters the loop with the batch unchanged.)
CollectRecv ==
    /\ monpc = "collect"
    /\ chan # <<>>
    /\ chan' = Tail(chan)
    /\ LET b == Append(batch, Head(chan))
       IN IF Len(b) < batch_size
          THEN /\ batch' = b
               /\ UNCHANGED <<monpc, flushers, active_workers>>
          ELSE /\ Cut(b)
               /\ batch' = <<>>
               /\ monpc' = "check"
    /\ UNCHANGED <<tx_open, permits, processed_count, shutdown_sig, accepted, flush_log>>
    /\ UNCHANGED <<tmsVars, finVars, sdVars, unit_task, lockVars>>

\* variant: whatever collect_batch returns is handed to a flusher
CollectClosedCutsEmpty ==
    /\ monpc = "collect"
    /\ chan = <<>>
    /\ ~tx_open
    /\ Cut(batch)
    /\ batch' = <<>>
    /\ monpc' = "check"
    /\ UNCHANGED <<tx_open, chan, permits, processed_count, shutdown_sig, accepted,
                   flush_log>>
    /\ UNCHANGED <<tmsVars, finVars, sdVars, unit_task, lockVars>>

\* collect_batch: rx.recv() yields None (every Sender dropped, channel empty): break
CollectClosed ==
    /\ monpc = "collect"
    /\ chan = <<>>
    /\ ~tx_open
    /\ IF batch = <<>>
       THEN UNCHANGED <<flushers, active_workers>>
       ELSE Cut(batch)
    /\ batch' = <<>>
    /\ monpc' = "check"
    /\ UNCHANGED <<tx_open, chan, permits, processed_count, shutdown_sig, accepted,
                   flush_log>>
    /\ UNCHANGED <<tmsVars, finVars, sdVars, unit_task, lockVars>>

\* spawn_monitor: timeout(batch_timeout, collect_batch) elapses: the collect_batch
\* future is dropped together with the Vec it was filling, and the loop continues
BatchTimeout ==
    /\ monpc = "collect"
    /\ batch' = <<>>
    /\ monpc' = "check"
    /\ UNCHANGED <<tx_open, chan, flushers, permits, active_workers, processed_count,
                   shutdown_sig, accepted, flush_log>>
    /\ UNCHANGED <<tmsVars, finVars, sdVars, unit_task, lockVars>>

\* variant: the flusher does not wait for a permit
FlusherAcquireUngated(i) ==
    /\ i \in 1 .. Len(flushers)
    /\ flushers[i].st = "acquire"
    /\ permits' = permits - 1
    /\ flushers' = [flushers EXCEPT ![i].st = "flushing"]
    /\ UNCHANGED <<tx_open, chan, monpc, batch, active_workers, processed_count,
                   shutdown_sig, accepted, flush_log>>
    /\ UNCHANGED <<tmsVars, finVars, sdVars, unit_task, lockVars>>

\* flusher: semaphore.acquire()
FlusherAcquire(i) ==
    /\ i \in 1 .. Len(flushers)
    /\ flushers[i].st = "acquire"
    /\ permits > 0
    /\ permits' = permits - 1
    /\ flushers' = [flushers EXCEPT ![i].st = "flushing"]
    /\ UNCHANGED <<tx_open, chan, monpc, batch, active_workers, processed_count,
                   shutdown_sig, accepted, flush_log>>
    /\ UNCHANGED <<tmsVars, finVars, sdVars, unit_task, lockVars>>

\* flusher: insert_fn returned; count a success, drop the permit, leave
FlusherDone(i, items_after, ok) ==
    /\ processed_count' = IF ok THEN processed_count + 1 ELSE processed_count
    /\ active_workers' = active_workers - 1
    /\ permits' = permits + 1
    /\ flushers' = RemoveAt(flushers, i)
    /\ flush_log' = flush_log \cup {[items |-> items_after, ok |-> ok]}

\* create_process_batch_fn, one task: db is the outcome of insert_with_episodes
process_task_in_batch(t, db) ==
    IF get_stage_result_data_by_name(t, "parsing") # "none"
    THEN IF db
         THEN IF get_task_status(t) = "InProgress" THEN complete_stage(t, "success") ELSE t
         ELSE IF get_task_status(t) = "InProgress" THEN fail_stage(t, "insert failed") ELSE t
    ELSE fail_stage(t, "No result data available")

\* create_process_batch_fn: the closure works on the tasks it was given and returns Ok(())
create_process_batch_fn(items, db) ==
    [i \in 1 .. Len(items) |-> process_task_in_batch(items[i], db[i])]

\* flusher of the TaskManagementSystem's inserter: insert_fn is create_process_batch_fn
FlusherRunBatch(i) ==
    /\ i \in 1 .. Len(flushers)
    /\ flushers[i].st = "flushing"
    /\ \E db \in [1 .. Len(flushers[i].items) -> BOOLEAN] :
          FlusherDone(i, create_process_batch_fn(flushers[i].items, db), TRUE)
    /\ UNCHANGED <<tx_open, chan, monpc, batch, shutdown_sig, accepted>>
    /\ UNCHANGED <<tmsVars, finVars, sdVars, unit_task, lockVars>>

\* flusher of a stand-alone inserter: insert_fn is any closure returning Ok or Err
FlusherRunFn(i, ok) ==
    /\ i \in 1 .. Len(flushers)
    /\ flushers[i].st = "flushing"
    /\ FlusherDone(i, flushers[i].items, ok)
    /\ UNCHANGED <<tx_open, chan, monpc, batch, shutdown_sig, accepted>>
    /\ UNCHANGED <<tmsVars, finVars, sdVars, unit_task, lockVars>>

\* BatchInserter::insert by the owner before it calls finish(), or by a clone or
\* handle at any time: the clone keeps a Sender and the Arc of the Receiver
InsertItem ==
    /\ finpc = "idle" \/ has_clone
    /\ Cardinality(accepted) < MaxItems
    /\ Len(chan) < ChanCapacity
    /\ chan' = Append(chan, Cardinality(accepted) + 1)
    /\ accepted' = accepted \cup {Cardinality(accepted) + 1}
    /\ UNCHANGED <<tx_open, monpc, batch, flushers, permits, active_workers,
                   processed_count, shutdown_sig, flush_log>>
    /\ UNCHANGED <<tmsVars, finVars, sdVars, unit_task, lockVars>>

\* finish(): send () to the monitor, drop self.tx, take the monitor handle
FinishSignal ==
    /\ finpc = "idle"
    /\ shutdown_sig' = TRUE
    /\ tx_open' = has_clone
    /\ finpc' = "await_monitor"
    /\ UNCHANGED <<chan, monpc, batch, flushers, permits, active_workers,
                   processed_count, accepted, flush_log>>
    /\ UNCHANGED <<tmsVars, fin_result, has_clone, batch_size, sdVars, unit_task, lockVars>>

\* finish(): the monitor handle resolved within 10 s
FinishMonitorJoined ==
    /\ finpc = "await_monitor"
    /\ monpc = "done"
    /\ finpc' = "wait_workers"
    /\ UNCHANGED <<tmsVars, insVars, fin_result, has_clone, batch_size, sdVars, unit_task, lockVars>>

\* finish(): the 10 s timeout on the monitor handle elapsed: return Err
FinishMonitorTimeout ==
    /\ finpc = "await_monitor"
    /\ monpc # "done"
    /\ finpc' = "err"
    /\ fin_result' = ErrResult
    /\ UNCHANGED <<tmsVars, insVars, has_clone, batch_size, sdVars, unit_task, lockVars>>

\* finish(): active_workers reached 0: return Ok(processed_count)
FinishReturn ==
    /\ finpc = "wait_workers"
    /\ active_workers = 0
    /\ finpc' = "ok"
    /\ fin_result' = processed_count
    /\ UNCHANGED <<tmsVars, insVars, has_clone, batch_size, sdVars, unit_task, lockVars>>

\* ------------------------------------------------------- specifications
Next ==
    \/ Start
    \/ \E url \in Urls, mr \in {0, MaxRetries} : AddTask(url, mr, MaxTasks)
    \/ ShutdownCall
    \/ ShutdownReturn
    \/ ShutdownTimeout
    \/ AwaitTimeout
    \/ Tick
    \/ TimerPop
    \/ TimerDrain
    \/ TimerRepublish
    \/ \E w \in Workers : WorkerRecv(w)
    \/ \E w \in Workers, ok \in BOOLEAN : WorkerFetch(w, ok)
    \/ \E w \in Workers, ok \in BOOLEAN : WorkerParse(w, ok)
    \/ \E w \in Workers : WorkerInsert(w)
    \/ \E w \in Workers : WorkerUpdate(w)
    \/ \E w \in Workers : WorkerCancel(w)
    \/ \E w \in Workers, timed_out \in BOOLEAN : WorkerShutdown(w, timed_out)
    \/ MonitorCheck
    \/ CollectRecv
    \/ BatchTimeout
    \/ \E i \in 1 .. MaxTasks : FlusherAcquire(i)
    \/ \E i \in 1 .. MaxTasks : FlusherRunBatch(i)

Spec == Init /\ [][Next]_vars

\* the system as the Distributor configures it: every task is built by
\* Task::new(id, url, 0), so nothing is ever handed to the TimerQueue, whose
\* drain of an empty heap ends well within the 100 s a worker waits for it
NextFacade ==
    \/ Start
    \/ \E url \in Urls : AddTask(url, 0, MaxSubmits)
    \/ ShutdownCall
    \/ ShutdownReturn
    \/ ShutdownTimeout
    \/ AwaitTimeout
    \/ TimerDrain
    \/ TimerRepublish
    \/ \E w \in Workers : WorkerRecv(w)
    \/ \E w \in Workers, ok \in BOOLEAN : WorkerFetch(w, ok)
    \/ \E w \in Workers, ok \in BOOLEAN : WorkerParse(w, ok)
    \/ \E w \in Workers : WorkerInsert(w)
    \/ \E w \in Workers : WorkerUpdate(w)
    \/ \E w \in Workers : WorkerCancel(w)
    \/ \E w \in Workers : WorkerShutdown(w, FALSE)
    \/ MonitorCheck
    \/ CollectRecv
    \/ BatchTimeout
    \/ \E i \in 1 .. MaxSubmits : FlusherAcquire(i)
    \/ \E i \in 1 .. MaxSubmits : FlusherRunBatch(i)

SpecFacade == Init /\ [][NextFacade]_vars

\* the system with any sequence of start, add_task, await and shutdown calls: start
\* may be called again
NextCoordinator ==
    \/ Start
    \/ StartAgain
    \/ \E url \in Urls : AddTask(url, 0, MaxTasks)
    \/ ShutdownCall
    \/ ShutdownReturn
    \/ ShutdownTimeout
    \/ AwaitTimeout
    \/ TimerDrain
    \/ TimerRepublish
    \/ \E w \in DOMAIN wpc : WorkerRecv(w)
    \/ \E w \in DOMAIN wpc, ok \in BOOLEAN : WorkerFetch(w, ok)
    \/ \E w \in DOMAIN wpc, ok \in BOOLEAN : WorkerParse(w, ok)
    \/ \E w \in DOMAIN wpc : WorkerInsert(w)
    \/ \E w \in DOMAIN wpc : WorkerUpdate(w)
    \/ \E w \in DOMAIN wpc : WorkerCancel(w)
    \/ \E w \in DOMAIN wpc : WorkerShutdown(w, FALSE)
    \/ MonitorCheck
    \/ CollectRecv
    \/ BatchTimeout
    \/ \E i \in 1 .. MaxStarts * MaxTasks : FlusherAcquire(i)
    \/ \E i \in 1 .. MaxStarts * MaxTasks : FlusherRunBatch(i)

SpecCoordinator == Init /\ [][NextCoordinator]_vars

InitInserter ==
    /\ InitTms /\ InitIns /\ has_clone \in BOOLEAN /\ batch_size = BatchSize
    /\ unit_task = NoTask /\ InitLocks

NextInserter ==
    \/ InsertItem
    \/ MonitorCheck
    \/ MonitorExit
    \/ CollectRecv
    \/ CollectClosed
    \/ BatchTimeout
    \/ \E i \in 1 .. MaxItems : FlusherAcquire(i)
    \/ \E i \in 1 .. MaxItems, ok \in BOOLEAN : FlusherRunFn(i, ok)
    \/ FinishSignal
    \/ FinishMonitorJoined
    \/ FinishMonitorTimeout
    \/ FinishReturn

SpecInserter == InitInserter /\ [][NextInserter]_vars

\* ------------------------------------------------ a Task on its own
StageNames == {"fetching", "parsing"}

InitTask ==
    /\ InitTms /\ InitIns /\ has_clone = FALSE /\ batch_size = TmsBatchSize
    /\ unit_task = TaskNew(1, "ok", 0) /\ InitLocks

TaskAddStage(name) ==
    /\ Len(unit_task.stages) < MaxStages
    /\ unit_task' = add_stage(unit_task, name)
    /\ UNCHANGED <<tmsVars, insVars, finVars, sdVars, lockVars>>

TaskCompleteStage ==
    /\ unit_task.stages # <<>>
    /\ unit_task' = complete_stage(unit_task, "{}")
    /\ UNCHANGED <<tmsVars, insVars, finVars, sdVars, lockVars>>

TaskFailStage ==
    /\ unit_task.stages # <<>>
    /\ unit_task' = fail_stage(unit_task, "error")
    /\ UNCHANGED <<tmsVars, insVars, finVars, sdVars, lockVars>>

NextTask ==
    \/ \E name \in StageNames : TaskAddStage(name)
    \/ TaskCompleteStage
    \/ TaskFailStage

SpecTask == InitTask /\ [][NextTask]_vars

\* ------------------------------------------- the TimerQueue on its own
\* the tasks a caller hands to schedule_retry: with or without a backoff_timer
RetryTasks ==
    {[TaskNew(id, "a", MaxRetries) EXCEPT !.backoff_timer = b] :
        id \in Ids, b \in {-1, now + BackoffSecs}}

\* TimerQueue::schedule_retry called by any holder of the Arc<TimerQueue>
ScheduleRetry(t) ==
    /\ Cardinality(timers) < MaxScheduled
    /\ audit[t.id].scheduled = 0
    /\ timers' = schedule_retry(timers, t)
    /\ audit' = Bump(audit, t.id, "scheduled")
    /\ UNCHANGED <<started, cancelled, task_id_counter, current_index, registry,
                   history, bus, wstate, wpc, wtask, in_progress, tqpc, timer_drained,
                   worker_count, shutdown_complete, now, sdpc, sd_started>>
    /\ UNCHANGED <<insVars, finVars, sdVars, unit_task, lockVars>>

NextTimer ==
    \/ Start
    \/ \E t \in RetryTasks : ScheduleRetry(t)
    \/ Tick
    \/ TimerPop
    \/ ShutdownCall
    \/ TimerDrain
    \/ TimerRepublish

SpecTimer == Init /\ [][NextTimer]_vars

\* ------------------------------------------ the locks of TaskWorkerMaps
\* task_metadata and worker_metadata are RwLock<HashMap<key, RwLock<value>>>: a guard
\* is a lock, <<map or entry kind, key>>, with the mode it is held in
MapOf(op) ==
    IF op \in {"insert_task", "update_task", "read_task", "read_all_tasks"}
    THEN <<"task_metadata", 0>> ELSE <<"worker_metadata", 0>>

EntryOf(op, key) ==
    IF op \in {"update_task", "read_task", "read_all_tasks"}
    THEN <<"task", key>> ELSE <<"worker", key>>

\* insert_task takes map.write(); every other operation map.read()
MapMode(op) == IF op = "insert_task" THEN "w" ELSE "r"

\* update_task and push_to_worker_with_capacity take lock.write(); the reads lock.read()
EntryMode(op) ==
    IF op \in {"update_task", "push_to_worker_with_capacity"} THEN "w" ELSE "r"

\* tokio RwLock: a read guard is granted while no write guard is out, a write guard
\* while no guard is out
Free(l, mode) ==
    \A c \in Coroutines : \A g \in held[c] :
        g.lock = l => (mode = "r" /\ g.mode = "r")

\* who calls what: Distributor::create_task and select_worker; Worker::process_task,
\* handle_fetch_error, handle_shutdown and update_history; the facade's get_task_info
\* and wait_for_all_tasks_completed
OpsOf(c) ==
    CASE c = "distributor" -> {"insert_task", "read_worker"}
      [] c = "worker" -> {"update_task", "push_to_worker_with_capacity", "read_task",
                          "read_worker"}
      [] c = "reader" -> {"read_all_tasks"}

TaskKeys == 1 .. MaxKeys

KeysOf(op) ==
    IF op \in {"read_worker", "push_to_worker_with_capacity"} THEN Workers
    ELSE IF op = "read_all_tasks" THEN {0}
    ELSE TaskKeys

tmsRest == <<started, cancelled, task_id_counter, current_index, bus, wstate, wpc, wtask,
             in_progress, timers, tqpc, timer_drained, worker_count, shutdown_complete,
             now, sdpc, sd_started, audit>>

\* a coroutine enters one of the operations
MapsCall(c, op, key) ==
    /\ calls[c].pc = "idle"
    /\ op \in OpsOf(c)
    /\ key \in KeysOf(op)
    /\ calls' = [calls EXCEPT ![c] = [op |-> op, key |-> key, pc |-> "map", todo |-> {}]]
    /\ UNCHANGED <<tmsVars, insVars, finVars, sdVars, unit_task, held>>

\* self.task_metadata / self.worker_metadata .read().await or .write().await
MapsLockMap(c) ==
    /\ calls[c].pc = "map"
    /\ Free(MapOf(calls[c].op), MapMode(calls[c].op))
    /\ held' = [held EXCEPT ![c] =
                   @ \cup {[lock |-> MapOf(calls[c].op), mode |-> MapMode(calls[c].op)]}]
    /\ calls' = [calls EXCEPT ![c].pc = "get",
                              ![c].todo = IF calls[c].op = "read_all_tasks"
                                          THEN DOMAIN registry ELSE {}]
    /\ UNCHANGED <<tmsVars, insVars, finVars, sdVars, unit_task>>

\* insert_task: map.insert(key, RwLock::new(value)); the write guard is dropped on return
MapsInsert(c) ==
    /\ calls[c].pc = "get"
    /\ calls[c].op = "insert_task"
    /\ registry' = insert_task(registry, calls[c].key, TaskNew(calls[c].key, "a", 0))
    /\ held' = [held EXCEPT ![c] = {}]
    /\ calls' = [calls EXCEPT ![c] = NoCall]
    /\ UNCHANGED <<tmsRest, history, insVars, finVars, sdVars, unit_task>>

\* if let Some(lock) = map.read().await.get(&key): the read guard is a temporary of
\* the scrutinee and lock borrows from it, so it lives to the end of the if let
MapsGet(c) ==
    /\ calls[c].pc = "get"
    /\ calls[c].op \notin {"insert_task", "read_all_tasks"}
    /\ IF calls[c].key \in (IF MapOf(calls[c].op)[1] = "task_metadata"
                             THEN DOMAIN registry ELSE DOMAIN history)
       THEN /\ calls' = [calls EXCEPT ![c].pc = "entry"]
            /\ UNCHANGED held
       ELSE /\ calls' = [calls EXCEPT ![c] = NoCall]
            /\ held' = [held EXCEPT ![c] = {}]
    /\ UNCHANGED <<tmsVars, insVars, finVars, sdVars, unit_task>>

\* lock.write().await / lock.read().await on the entry
MapsLockEntry(c) ==
    /\ calls[c].pc = "entry"
    /\ Free(EntryOf(calls[c].op, calls[c].key), EntryMode(calls[c].op))
    /\ held' = [held EXCEPT ![c] =
                   @ \cup {[lock |-> EntryOf(calls[c].op, calls[c].key),
                            mode |-> EntryMode(calls[c].op)]}]
    /\ calls' = [calls EXCEPT ![c].pc = "body"]
    /\ UNCHANGED <<tmsVars, insVars, finVars, sdVars, unit_task>>

\* the body of the if let: write or clone the entry; both guards are dropped after it
MapsBody(c) ==
    /\ calls[c].pc = "body"
    /\ registry' = IF calls[c].op = "update_task"
                   THEN update_task(registry, calls[c].key,
                                    add_stage(TaskNew(calls[c].key, "a", 0), "fetching"))
                   ELSE registry
    /\ history' = IF calls[c].op = "push_to_worker_with_capacity"
                  THEN push_to_worker_with_capacity(history, calls[c].key, "a",
                                                    MaxHistorySize)
                  ELSE history
    /\ held' = [held EXCEPT ![c] = {}]
    /\ calls' = [calls EXCEPT ![c] = NoCall]
    /\ UNCHANGED <<tmsRest, insVars, finVars, sdVars, unit_task>>

\* read_all_tasks: under the map's read guard, join_all over map.values(): one of
\* the futures gets lock.read().await
MapsReadAllLock(c, k) ==
    /\ calls[c].pc = "get"
    /\ calls[c].op = "read_all_tasks"
    /\ k \in calls[c].todo
    /\ Free(<<"task", k>>, "r")
    /\ held' = [held EXCEPT ![c] = @ \cup {[lock |-> <<"task", k>>, mode |-> "r"]}]
    /\ calls' = [calls EXCEPT ![c].pc = "cloning", ![c].key = k]
    /\ UNCHANGED <<tmsVars, insVars, finVars, sdVars, unit_task>>

\* read_all_tasks: .clone() and the entry's read guard is dropped
MapsReadAllClone(c) ==
    /\ calls[c].pc = "cloning"
    /\ held' = [held EXCEPT ![c] = @ \ {[lock |-> <<"task", calls[c].key>>, mode |-> "r"]}]
    /\ calls' = [calls EXCEPT ![c].pc = "get", ![c].key = 0,
                              ![c].todo = @ \ {calls[c].key}]
    /\ UNCHANGED <<tmsVars, insVars, finVars, sdVars, unit_task>>

\* read_all_tasks: join_all is complete; the map's read guard is dropped on return
MapsReadAllDone(c) ==
    /\ calls[c].pc = "get"
    /\ calls[c].op = "read_all_tasks"
    /\ calls[c].todo = {}
    /\ held' = [held EXCEPT ![c] = {}]
    /\ calls' = [calls EXCEPT ![c] = NoCall]
    /\ UNCHANGED <<tmsVars, insVars, finVars, sdVars, unit_task>>

AllOps == UNION {OpsOf(c) : c \in Coroutines}

NextLocks ==
    \/ \E c \in Coroutines, op \in AllOps, key \in 0 .. MaxKeys : MapsCall(c, op, key)
    \/ \E c \in Coroutines : MapsLockMap(c)
    \/ \E c \in Coroutines : MapsInsert(c)
    \/ \E c \in Coroutines : MapsGet(c)
    \/ \E c \in Coroutines : MapsLockEntry(c)
    \/ \E c \in Coroutines : MapsBody(c)
    \/ \E c \in Coroutines, k \in TaskKeys : MapsReadAllLock(c, k)
    \/ \E c \in Coroutines : MapsReadAllClone(c)
    \/ \E c \in Coroutines : MapsReadAllDone(c)

SpecLocks == Init /\ [][NextLocks]_vars

\* =============================================================== claims
IsTerminal(t) ==
    /\ t.stages # <<>>
    /\ \/ Last(t.stages).status = "Failed"
       \/ Last(t.stages).name = "inserting" /\ Last(t.stages).status = "Completed"

NoStageInProgress(t) == \A i \in 1 .. Len(t.stages) : t.stages[i].status # "InProgress"

InserterIdle == chan = <<>> /\ batch = <<>> /\ flushers = <<>>

StagesNamed(t, name) == SelectSeq(t.stages, LAMBDA s : s.name = name)

\* every copy of task id that exists in the system (Spec: inserter items are tasks)
FlusherItems == UNION {SeqToSet(flushers[i].items) : i \in 1 .. Len(flushers)}

Copies(id) ==
    {t \in (IF id \in DOMAIN registry THEN {registry[id]} ELSE {})
           \cup UNION {SeqToSet(bus[w]) : w \in Workers}
           \cup timers \cup SeqToSet(remaining_tasks)
           \cup {wtask[w] : w \in Workers}
           \cup SeqToSet(chan) \cup SeqToSet(batch) \cup FlusherItems : t.id = id}

\* the retries fields of the tasks with this id in a sequence of tasks
RetriesIn(q, id) == {q[i].retries : i \in {j \in 1 .. Len(q) : q[j].id = id}}

\* {t.retries : t \in Copies(id)}, gathered place by place
RetriesValues(id) ==
    (IF id \in DOMAIN registry THEN {registry[id].retries} ELSE {})
        \cup UNION {RetriesIn(bus[w], id) : w \in Workers}
        \cup {t.retries : t \in {u \in timers : u.id = id}}
        \cup RetriesIn(remaining_tasks, id)
        \cup {wtask[w].retries : w \in {v \in Workers : wtask[v].id = id}}
        \cup RetriesIn(chan, id) \cup RetriesIn(batch, id)
        \cup UNION {RetriesIn(flushers[k].items, id) : k \in 1 .. Len(flushers)}

\* C1: after shutdown() has returned and the inserter has nothing left to do, every
\* task of the registry has a terminal last stage (inserting/Completed or Failed)
\* and none of its stages is InProgress.
C1_ShutdownLeavesAllTerminal ==
    (sdpc = "returned" /\ sd_started /\ InserterIdle)
        => \A id \in DOMAIN registry :
              IsTerminal(registry[id]) /\ NoStageInProgress(registry[id])

C3_FlushWrittenBack ==
    \A e \in flush_log : \A j \in 1 .. Len(e.items) :
        LET t == e.items[j]
        IN (/\ e.ok
            /\ get_task_status(t) = "Completed"
            /\ \A w \in Workers : wtask[w].id # t.id)
               => /\ t.id \in DOMAIN registry
                  /\ Last(registry[t.id].stages).name = "inserting"
                  /\ Last(registry[t.id].stages).status = "Completed"

\* C4: no item accepted by insert() is discarded: it is in the channel, in the batch
\* being collected, in a flusher, or it has been handed to flush_fn; in particular a
\* partial batch survives the batch_timeout.
FlushedItems == UNION {SeqToSet(e.items) : e \in flush_log}

C4_NoAcceptedItemDiscarded ==
    \A x \in accepted :
        x \in SeqToSet(chan) \cup SeqToSet(batch) \cup FlusherItems \cup FlushedItems

\* C5: when finish() has returned Ok(n), every item accepted before finish() was
\* passed to flush_fn in exactly one batch, and if every flush succeeded then
\* n = ceil(k / batch_size) for the k accepted items.
CeilDiv(a, b) == (a + b - 1) \div b

C5_FinishFlushesEverything ==
    finpc = "ok" =>
        /\ \A x \in accepted :
              Cardinality({e \in flush_log : x \in SeqToSet(e.items)}) = 1
        /\ (\A e \in flush_log : e.ok)
              => fin_result = CeilDiv(Cardinality(accepted), batch_size)

\* C6: finish() returns Ok(n) only after the monitor has exited and active_flushers
\* is 0, n is the number of flush_fn invocations that returned success, and the
\* monitor has exited only with active_flushers = 0.
SuccessfulFlushes == Cardinality({e \in flush_log : e.ok})

C6_FinishWaitsForMonitorAndFlushers ==
    /\ monpc = "done" => (active_workers = 0 /\ flushers = <<>>)
    /\ finpc = "ok" => /\ monpc = "done"
                       /\ active_workers = 0
                       /\ fin_result = SuccessfulFlushes

C6_Witness ==
    /\ finpc = "ok"
    /\ fin_result >= 1
    /\ \E e \in flush_log : ~e.ok

FetchExhausted(id) ==
    /\ id \in DOMAIN registry
    /\ Last(registry[id].stages).name = "fetching"
    /\ Last(registry[id].stages).status = "Failed"

C8_FetchExhaustion ==
    \A id \in Ids :
        FetchExhausted(id) =>
            LET t == registry[id]
            IN /\ audit[id].fetch_fails = audit[id].fetch_calls
               /\ audit[id].fetch_calls = t.max_retries + 1
               /\ t.retries = t.max_retries
               /\ ~HasStage(t, "parsing")
               /\ get_task_status(t) = "Failed"
               /\ \A u \in timers : u.id # id
               /\ audit[id].scheduled = t.max_retries

C8_Witness ==
    \E id \in Ids : FetchExhausted(id) /\ registry[id].max_retries >= 1
                    /\ audit[id].fetch_calls >= 2

\* C9: from the step in which the parser rejects a task on, the task is not handed
\* to the TimerQueue, no copy of it gets a new retries value, it is not published on
\* the dispatch bus and it is not submitted to the BatchInserter.
C9_ParseFailureNotRetried ==
    [][\A id \in Ids :
          audit'[id].parse_fails > 0 =>
              /\ audit'[id].scheduled = audit[id].scheduled
              /\ audit'[id].published = audit[id].published
              /\ audit'[id].submitted = audit[id].submitted
              /\ audit'[id].fetch_calls = audit[id].fetch_calls
              /\ RetriesValues(id)' \subseteq RetriesValues(id)
              /\ \A u \in timers' : u.id # id]_vars

C9_Witness ==
    \E id \in DOMAIN registry :
        /\ audit[id].parse_fails > 0
        /\ registry[id].max_retries > 0
        /\ \A w \in Workers : wtask[w].id # id

\* C10: every copy of every task has retries <= max_retries, and a retries value
\* that no copy of the task had before appears only in a step in which a fetch of
\* the task fails, is one more than a value a copy had, and that value was below
\* max_retries.
C10_RetriesBounded ==
    /\ [](\A id \in DOMAIN registry : \A t \in Copies(id) : t.retries <= t.max_retries)
    /\ [][\A id \in DOMAIN registry :
             RetriesValues(id) # {} =>
                 \A r \in RetriesValues(id)' \ RetriesValues(id) :
                     /\ audit'[id].fetch_fails = audit[id].fetch_fails + 1
                     /\ (r - 1) \in RetriesValues(id)
                     /\ r - 1 < registry[id].max_retries]_vars

C10_Witness ==
    \E id \in Ids : \E t \in Copies(id) : t.retries = t.max_retries /\ t.retries >= 2

\* every copy of every task: registry snapshots, messages on the bus, heap entries,
\* the tasks the workers hold, and the tasks inside the inserter and its flushes
AllCopies == UNION {Copies(id) : id \in Ids} \cup {t \in FlushedItems : t.id \in Ids}

InProgressCount(t) ==
    Cardinality({i \in 1 .. Len(t.stages) : t.stages[i].status = "InProgress"})

\* C11: in every reachable state every copy of every task (in the registry, on the
\* bus, in the TimerQueue, held by a worker, inside the BatchInserter) has at most
\* one stage whose status is InProgress.
C11_AtMostOneStageInProgress ==
    \A t \in AllCopies : InProgressCount(t) <= 1

\* a task that went through the TimerQueue and was handed to the inserter
C11_Witness ==
    \E t \in SeqToSet(chan) \cup FlusherItems :
        /\ t.retries >= 1
        /\ Last(t.stages).name = "inserting"
        /\ InProgressCount(t) = 1

\* C12: every copy of a task that has a Completed inserting stage has, in this
\* order, stages named distribution, fetching, parsing and inserting, each Completed.
InsertingCompleted(t) ==
    \E i \in 1 .. Len(t.stages) :
        t.stages[i].name = "inserting" /\ t.stages[i].status = "Completed"

CompletedAt(t, i, name) == t.stages[i].name = name /\ t.stages[i].status = "Completed"

C12_CompletedInsertHasFullStageLog ==
    \A t \in AllCopies :
        InsertingCompleted(t) =>
            \E a, b, c, d \in 1 .. Len(t.stages) :
                /\ a < b /\ b < c /\ c < d
                /\ CompletedAt(t, a, "distribution")
                /\ CompletedAt(t, b, "fetching")
                /\ CompletedAt(t, c, "parsing")
                /\ CompletedAt(t, d, "inserting")

C12_Witness ==
    \E t \in AllCopies : InsertingCompleted(t) /\ t.retries >= 1

\* the ids for which add_task has been called (it has returned Ok or Err)
Minted == {id \in Ids : audit[id].returned # "none"}

\* C13: the task of the k-th add_task call (k counted from 0, so its id is k + 1)
\* has target_thread_id = k mod worker_count in the registry and in every copy of
\* it made later, and once worker_count calls were made every worker is the target
\* of at least one task.
C13_RoundRobinAssignment ==
    /\ \A id \in Minted : id \in DOMAIN registry
    /\ \A t \in AllCopies : t.target_thread_id = (t.id - 1) % NumWorkers
    /\ Cardinality(Minted) >= NumWorkers
          => \A w \in Workers : \E id \in DOMAIN registry :
                registry[id].target_thread_id = w

\* every worker has received and fully processed a task of its own
C13_Witness ==
    /\ Cardinality(Minted) >= NumWorkers
    /\ \A w \in Workers : \E id \in DOMAIN registry :
          /\ registry[id].target_thread_id = w
          /\ HasStage(registry[id], "inserting")

\* C14: every add_task call, whether its publish succeeds or fails, mints an id
\* that is greater than every id minted before and that no task of the registry
\* carries yet; the task it records carries that id.
C14_IdsStrictlyIncreasing ==
    [][\A id \in Ids :
          (id \in Minted' /\ id \notin Minted) =>
              /\ \A j \in Minted : j < id
              /\ \A j \in DOMAIN registry : j < id /\ registry[j].id < id
              /\ id \in DOMAIN registry'
              /\ registry'[id].id = id
              /\ task_id_counter' = id]_vars

\* an id minted by a failed publish is followed by a greater one
C14_Witness ==
    \E i, j \in Minted :
        i < j /\ audit[i].returned = "Err" /\ audit[j].returned = "Ok"

\* C15: every batch the monitor hands to a flusher, and so every batch passed to
\* flush_fn, has at least one and at most batch_size items.
C15_BatchSizeWithinBounds ==
    /\ \A i \in 1 .. Len(flushers) :
          1 <= Len(flushers[i].items) /\ Len(flushers[i].items) <= batch_size
    /\ \A e \in flush_log : 1 <= Len(e.items) /\ Len(e.items) <= batch_size

\* a partial batch (cut when the channel closed) has been flushed, and the monitor
\* has afterwards collected an empty batch from the closed channel
C15_Witness ==
    /\ \E e \in flush_log : Len(e.items) < batch_size
    /\ ~tx_open /\ chan = <<>> /\ monpc = "done"

\* C16: at most max_concurrent_inserts calls of flush_fn run at the same time, and
\* the flushers that are running are exactly the holders of the missing permits.
Flushing == {i \in 1 .. Len(flushers) : flushers[i].st = "flushing"}

C16_FlushConcurrencyBounded ==
    /\ Cardinality(Flushing) <= MaxConcurrentInserts
    /\ permits >= 0
    /\ permits + Cardinality(Flushing) = MaxConcurrentInserts

\* more batches are cut than there are permits: one flusher waits for a permit
C16_Witness ==
    /\ Cardinality(Flushing) = MaxConcurrentInserts
    /\ \E i \in 1 .. Len(flushers) : flushers[i].st = "acquire"

\* C17: an add_task call returns Err exactly when its publish fails, that is when
\* no worker is subscribed to the dispatch bus (before start, after the workers
\* left); then the task is in the registry with its distribution stage Failed and
\* nothing is put on the bus. Otherwise it returns Ok, the task is in the registry
\* with distribution Completed and a copy of it is the newest message of every
\* subscriber.
OnlyStage(t, name, status) ==
    Len(t.stages) = 1 /\ t.stages[1].name = name /\ t.stages[1].status = status

C17_SubmitErrIffPublishFails ==
    [][\A id \in Ids :
          (id \in Minted' /\ id \notin Minted) =>
              /\ audit'[id].returned \in {"Ok", "Err"}
              /\ (audit'[id].returned = "Err") <=> (Receivers = {})
              /\ id \in DOMAIN registry'
              /\ audit'[id].returned = "Err"
                    => /\ OnlyStage(registry'[id], "distribution", "Failed")
                       /\ bus' = bus
              /\ audit'[id].returned = "Ok"
                    => /\ OnlyStage(registry'[id], "distribution", "Completed")
                       /\ \A w \in Receivers :
                             bus'[w] # <<>> /\ Last(bus'[w]) = registry'[id]
                       /\ \A w \in Workers \ Receivers : bus'[w] = bus[w]]_vars

\* a submit that succeeded, then shutdown returned, then a submit that failed
C17_Witness ==
    /\ sdpc = "returned" /\ sd_started
    /\ \E i, j \in Minted :
          i < j /\ audit[i].returned = "Ok" /\ audit[j].returned = "Err"

\* C18: the registry holds exactly one entry for every add_task call made so far,
\* under the id minted by the call and with the URL of the call, also when URLs
\* repeat; no step removes an entry, changes the id or the URL of an entry, so
\* list_tasks returns as many tasks as add_task was called.
C18_OneEntryPerSubmit ==
    /\ [](/\ DOMAIN registry = Minted
           /\ Cardinality(DOMAIN registry) = task_id_counter
           /\ \A id \in DOMAIN registry : registry[id].id = id)
    /\ [][/\ DOMAIN registry \subseteq DOMAIN registry'
           /\ \A id \in DOMAIN registry :
                 registry'[id].id = id /\ registry'[id].payload = registry[id].payload]_vars

\* two tasks with the same URL, one of them flushed, after shutdown has returned
C18_Witness ==
    /\ sdpc = "returned" /\ sd_started
    /\ \E i, j \in DOMAIN registry :
          /\ i < j
          /\ registry[i].payload = registry[j].payload
          /\ \E t \in FlushedItems : t.id = i

\* C19: a task whose fetch has failed (and which no worker is handling any more)
\* has been scheduled on the TimerQueue and its registry snapshot has retries > 0.
C19_FailedFetchIsRetried ==
    \A id \in DOMAIN registry :
        (audit[id].fetch_fails > 0 /\ \A w \in Workers : wtask[w].id # id)
            => audit[id].scheduled > 0 /\ registry[id].retries > 0

\* C20: the history of every worker holds at most max_history_size URLs.
C20_HistoryWithinCapacity ==
    \A w \in Workers : Len(history[w]) <= MaxHistorySize

\* every submitted task is done with: the registry shows it terminal and no copy of
\* it is on the bus, in the TimerQueue, in a worker or in the inserter
AllTasksSettled ==
    /\ DOMAIN registry # {}
    /\ \A id \in DOMAIN registry : IsTerminal(registry[id])
    /\ \A w \in Workers : bus[w] = <<>> /\ wtask[w] = NoTask
    /\ timers = {} /\ remaining_tasks = <<>>
    /\ InserterIdle

\* the step in which wait_for_all_tasks_completed_with_timeout gives up and cancels
AwaitCancels == ~cancelled /\ cancelled' /\ sdpc' = sdpc

\* C21: wait_for_all_tasks_completed_with_timeout does not cancel the token once
\* every submitted task is terminal: it has returned by then, so its timeout branch
\* is not taken from a state in which the system is started and all tasks are settled.
C21_AwaitReturnsWhenAllTerminal ==
    [][(started /\ AllTasksSettled) => ~AwaitCancels]_vars

RegistryShowsFailure(id) ==
    /\ get_task_status(registry[id]) = "Failed"
    /\ Last(registry[id].stages).err # ""

\* C23: once a task has failed for good and its worker has let go of it, list_tasks
\* shows it with a Failed last stage and the error message, whether the failure was
\* the exhaustion of its fetches, a rejection by the parser, or a failed flush of
\* the batch that carried it.
C23_TerminalFailureInRegistry ==
    \A id \in DOMAIN registry :
        /\ (/\ audit[id].fetch_fails > registry[id].max_retries
            /\ \A w \in Workers : wtask[w].id # id)
               => RegistryShowsFailure(id)
        /\ (/\ audit[id].parse_fails > 0
            /\ \A w \in Workers : wtask[w].id # id)
               => RegistryShowsFailure(id)
        /\ (/\ \E f \in flush_log : ~f.ok /\ \E t \in SeqToSet(f.items) : t.id = id
            /\ \A w \in Workers : wtask[w].id # id)
               => RegistryShowsFailure(id)

\* the messages in q addressed to worker w, in queue order
TargetedAt(q, w) == SelectSeq(q, LAMBDA t : t.target_thread_id = w)

IsSuffix(s, q) == Len(s) <= Len(q) /\ s = SubSeq(q, Len(q) - Len(s) + 1, Len(q))

IsPrefix(s, q) == Len(s) <= Len(q) /\ s = SubSeq(q, 1, Len(s))

\* C24: no message addressed to a subscribed worker leaves its queue except by being
\* received, and the queue keeps publication order: in every step the messages
\* addressed to w that were waiting are still waiting, in the same order and ahead
\* of what the step published, unless w itself received from the head of its queue.
C24_NoTaskLostOnBus ==
    [][\A w \in Workers :
          (wpc[w] \notin {"notstarted", "done"} /\ wpc'[w] # "done") =>
              \/ IsPrefix(TargetedAt(bus[w], w), TargetedAt(bus'[w], w))
              \/ /\ wpc[w] = "recv" /\ wpc'[w] # "recv"
                 /\ IsSuffix(TargetedAt(bus'[w], w), TargetedAt(bus[w], w))]_vars

\* the first stage of t named name, as a set: empty when t has no such stage
FirstStageNamed(t, name) ==
    {t.stages[i] : i \in {j \in 1 .. Len(t.stages) :
                             /\ t.stages[j].name = name
                             /\ \A k \in 1 .. (j - 1) : t.stages[k].name # name}}

\* C25: for every task and every stage name, get_stage_result_data_by_name returns
\* the result_data of the first stage of that name when that stage is Completed,
\* and nothing when the stage is InProgress or Failed or when there is no such stage.
C25_StageResultOnlyIfCompleted ==
    \A t \in AllCopies :
        \A name \in {"distribution", "fetching", "parsing", "inserting"} :
            LET r == get_stage_result_data_by_name(t, name)
            IN IF \E s \in FirstStageNamed(t, name) : s.status = "Completed"
               THEN \E s \in FirstStageNamed(t, name) : r = s.result
               ELSE r = "none"

\* C26: on a task that is terminal, fail_stage and add_stage change nothing: the
\* stages, their statuses and their error messages stay as they are.
C26_TerminalTaskIgnoresStageCalls ==
    IsTerminal(unit_task) =>
        /\ fail_stage(unit_task, "late error") = unit_task
        /\ \A name \in StageNames : add_stage(unit_task, name) = unit_task

\* C27: once finish() has returned Ok, no insert is accepted any more, through
\* whatever clone or handle it is made: the set of accepted items does not grow.
C27_NoInsertAfterFinish ==
    [][(finpc = "ok") => (accepted' = accepted)]_vars

C30_NoExitBeforeTimerDrained ==
    /\ [](\A w \in Workers :
             (wpc[w] = "done" /\ ~wait_timed_out[w]) => timer_drained)
    /\ [][\A w \in Workers :
             (wpc[w] # "done" /\ wpc'[w] = "done") =>
                 /\ wpc[w] = "drain"
                 /\ timer_drained \/ wait_timed_out'[w]
                 /\ worker_count' = worker_count - 1]_vars

\* one worker left after the drain republished a task, another after its wait ran out
C30_Witness ==
    /\ \E id \in DOMAIN registry : audit[id].drained > 0
    /\ \E w \in Workers : wpc[w] = "done" /\ ~wait_timed_out[w]
    /\ \E w \in Workers : wpc[w] = "done" /\ wait_timed_out[w]

\* C31: every heap entry has a backoff_timer, which schedule_retry sets to now + 1 s
\* when the task comes without one; and while the TimerQueue loop has not been
\* cancelled into its drain, a task is taken from the heap and published only as
\* the single entry with the smallest backoff_timer of the heap, with that
\* backoff_timer <= now, and it becomes the newest message of every subscriber.
C31_PopOnlyDueSmallestFirst ==
    /\ [](\A t \in timers : t.backoff_timer # -1)
    /\ [][/\ \A u \in timers' \ timers : u.backoff_timer = now + BackoffSecs
          /\ (/\ tqpc' = "running"
              /\ \/ \E t \in timers : t \notin timers'
                 \/ \E id \in Ids : audit'[id].published > audit[id].published)
                => \E t \in timers :
                      /\ timers' = timers \ {t}
                      /\ t.backoff_timer <= now
                      /\ \A u \in timers : t.backoff_timer <= u.backoff_timer
                      /\ audit' = Bump(audit, t.id, "published")
                      /\ \A w \in Receivers : Last(bus'[w]) = t]_vars

\* an entry that is not yet due waits in the heap after an earlier one was published
C31_Witness ==
    /\ tqpc = "running"
    /\ \E t \in timers :
          /\ t.backoff_timer > now
          /\ \E id \in Ids \ {t.id} :
                audit[id].scheduled = 1 /\ audit[id].published = 1

\* the TimerQueue loop with the scheduling the runtime gives it: time passes, and a
\* loop that can pop, drain or republish eventually does
FairSpec ==
    /\ Spec
    /\ WF_vars(Tick) /\ WF_vars(TimerPop) /\ WF_vars(TimerDrain) /\ WF_vars(TimerRepublish)

\* task id waits in the heap with a deadline the clock of the model can reach,
\* while the TimerQueue loop has not been left
ScheduledWhileRunning(id) ==
    /\ tqpc \in {"running", "draining"}
    /\ \E t \in timers : t.id = id /\ t.backoff_timer <= MaxTime

\* task id has left the heap and the drain's buffer: it was sent on the bus
Republished(id) ==
    /\ \A t \in timers : t.id # id
    /\ \A i \in 1 .. Len(remaining_tasks) : remaining_tasks[i].id # id

InsertingNotCompleted(t) ==
    \A i \in 1 .. Len(t.stages) :
        t.stages[i].name = "inserting" => t.stages[i].status # "Completed"

\* C33: the worker appends the inserting stage as InProgress and sends the task with
\* it; no copy of a task outside the output of a flusher (registry, bus, heap, worker,
\* inserter channel, batch, flusher input) has an inserting stage that is Completed;
\* an inserting stage is Completed only in the output of a flush, with the result
\* that create_process_batch_fn writes.
C33_InsertingCompletedOnlyByFlusher ==
    /\ [](\A id \in Ids : \A t \in Copies(id) : InsertingNotCompleted(t))
    /\ [](\A e \in flush_log : \A i \in 1 .. Len(e.items) : \A k \in 1 .. Len(e.items[i].stages) :
            (e.items[i].stages[k].name = "inserting" /\ e.items[i].stages[k].status = "Completed")
                => (k = Len(e.items[i].stages) /\ e.items[i].stages[k].result = "success"))
    /\ [][\A w \in Workers :
            (wpc[w] = "insert" /\ wpc'[w] = "update")
                => /\ Last(wtask'[w].stages) = NewStage("inserting")
                   /\ Last(chan') = wtask'[w]]_vars

\* a flush completed the inserting stage of a task after the worker wrote the task,
\* with the stage InProgress, to the registry
C33_Witness ==
    \E e \in flush_log : \E i \in 1 .. Len(e.items) :
        /\ IsTerminal(e.items[i])
        /\ Last(e.items[i].stages).name = "inserting"
        /\ Last(e.items[i].stages).status = "Completed"
        /\ e.items[i].id \in DOMAIN registry
        /\ registry[e.items[i].id].stages # <<>>
        /\ Last(registry[e.items[i].id].stages) = NewStage("inserting")

\* C34: a worker holds (fetches, parses, submits) only a task whose target_thread_id
\* is its own id, and only in state Processing; the step in which a worker takes a
\* task with another target from its receiver changes nothing but that receiver: the
\* registry, the worker histories, the retry heap, the per-task counters, the tasks
\* the workers hold and their in_progress lists stay as they were.
C34_WorkerExecutesOnlyOwnTasks ==
    /\ [](\A w \in Workers :
            wtask[w] # NoTask =>
                (wtask[w].target_thread_id = w /\ wstate[w] = "Processing"))
    /\ [][\A w \in Workers :
            (/\ wpc[w] = "recv"
             /\ bus[w] # <<>>
             /\ bus'[w] = Tail(bus[w])
             /\ Head(bus[w]).target_thread_id # w)
                => /\ registry' = registry /\ history' = history
                   /\ timers' = timers /\ audit' = audit
                   /\ wtask' = wtask /\ in_progress' = in_progress
                   /\ wpc' = wpc /\ wstate' = wstate]_vars

\* a worker has taken from its receiver, and discarded, a task that the worker it was
\* addressed to has fetched
C34_Witness ==
    \E w \in Workers : \E id \in DOMAIN registry :
        /\ registry[id].target_thread_id # w
        /\ wstate[w] = "Processing" /\ wpc[w] = "recv"
        /\ bus[w] = <<>> /\ wtask[w] = NoTask /\ in_progress[w] = <<>>
        /\ audit[id].published >= 1
        /\ audit[id].fetch_calls >= 1

\* some copy of task id, in the system or in the output of a flush, is terminal
TerminalSomewhere(id) ==
    \E t \in Copies(id) \cup {u \in FlushedItems : u.id = id} : IsTerminal(t)

\* C35: once some copy of a task is terminal (last stage Failed, or inserting
\* Completed), no step gives any copy of that task a stage list that no copy had
\* before: nothing is appended and no status changes, in the registry or elsewhere.
C35_TerminalReachedOnce ==
    [][\A id \in Ids :
         TerminalSomewhere(id) =>
             /\ \A t \in Copies(id)' : \E u \in Copies(id) : u.stages = t.stages
             /\ \A t \in {u \in FlushedItems' : u.id = id} :
                   \E u \in {v \in FlushedItems : v.id = id} : u.stages = t.stages]_vars

\* a task failed for good after its retries, and the workers and the TimerQueue
\* went through their shutdown afterwards without touching it
C35_Witness ==
    \E id \in DOMAIN registry :
        /\ IsTerminal(registry[id])
        /\ registry[id].retries = MaxRetries
        /\ Last(registry[id].stages).err = "fetch error"
        /\ tqpc = "done"
        /\ \A w \in Workers : wpc[w] = "done"

TimerPublishes(id) == audit[id].published - (IF audit[id].returned = "Ok" THEN 1 ELSE 0)

\* the entries of task id that wait in the heap or in the drain's buffer
TimerHolds(id) ==
    Cardinality({t \in timers : t.id = id})
        + Len(SelectSeq(remaining_tasks, LAMBDA t : t.id = id))

\* C40: for every task, the republishes the TimerQueue has made plus the entries it
\* still holds never exceed the schedule_retry calls made for the task: no entry is
\* sent twice, whether the deadline pop or the drain takes it.
C40_NoDuplicateRepublish ==
    \A id \in Ids : TimerPublishes(id) + TimerHolds(id) <= audit[id].scheduled

\* a task was scheduled twice: the first entry was republished at its deadline, the
\* second by the drain
C40_Witness ==
    \E id \in Ids :
        /\ audit[id].scheduled = 2
        /\ audit[id].drained = 1
        /\ TimerPublishes(id) = 2
        /\ tqpc = "done"

\* C37: the counter of the ShutdownCoordinator equals the number of workers minus the
\* number of worker loops that reached Shutdown, it is never below zero (a value
\* below zero stands for the wrapped AtomicUsize), and all_workers_done has fired
\* only if the counter has been at zero.
C37_RemainingWorkersCounted ==
    /\ [](worker_count =
             NumWorkers - Cardinality({w \in DOMAIN wstate : wstate[w] = "Shutdown"}))
    /\ [](worker_count >= 0)
    /\ [][(shutdown_complete' /\ ~shutdown_complete) => worker_count' = 0]_vars

\* C36: no coroutine holds more than one guard of the locks of TaskWorkerMaps (the
\* two maps' locks and the entries' locks) at a time.
C36_AtMostOneLockHeld ==
    \A c \in Coroutines : Cardinality(held[c]) <= 1

====
